---------------------------- MODULE Spec2Model ----------------------------
(***************************************************************************)
(* A model of myia's edge-tracked ANF graph (src/myia/anf_ir.py) and of    *)
(* its front end (src/myia/front.py): the fresh-name generator, the scope  *)
(* chain and the lowering pass.                                            *)
(*                                                                         *)
(* Three specifications share the variables:                               *)
(*   SpecIR     nodes, their Inputs containers and uses sets               *)
(*   SpecSym    one GenSym and a chain of Env scopes                       *)
(*   SpecParse  parse_source applied to a function definition              *)
(***************************************************************************)
EXTENDS Integers, Sequences, FiniteSets, TLC

VARIABLES
    alive,      \* IR: the nodes constructed so far
    inputs,     \* IR: node -> Inputs.data of the node's current container
    uses,       \* IR: node -> ANFNode.uses, a set of <<consumer, index>>
    last,       \* IR: the last operation called and the exception it raised
    raised,     \* IR: whether some operation so far has raised
    steps,      \* IR: the number of container operations called so far
    varcounts,  \* Sym: GenSym.varcounts
    envs,       \* Sym: scope -> Env (its parent and its bindings)
    issued,     \* Sym: the calls of GenSym.name so far: base and name returned
    rebound,    \* Sym: scope -> name -> symbols new_variable has returned
    prog,       \* Parse: the syntax tree handed to Parser.visit
    hashorder,  \* Parse: the iteration order of the build's string sets
    out         \* Parse: the outcome of parse_source

vars == <<alive, inputs, uses, last, raised, steps,
          varcounts, envs, issued, rebound, prog, hashorder, out>>

irVars == <<alive, inputs, uses, last, raised, steps>>
symVars == <<varcounts, envs, issued, rebound>>
parseVars == <<prog, hashorder, out>>

(***************************************************************************)
(* Python list primitives, 0-based, over TLA+ sequences.                   *)
(***************************************************************************)
Max(a, b) == IF a > b THEN a ELSE b
Min(a, b) == IF a < b THEN a ELSE b

\* data[index] is defined (no IndexError)
PyIndexOK(data, index) == -Len(data) <= index /\ index < Len(data)

\* the 1-based position data[index] addresses
PyPos(data, index) == IF index < 0 THEN index + Len(data) + 1 ELSE index + 1

PyGet(data, index) == data[PyPos(data, index)]

\* the 0-based start of the slice data[index:]
PySliceStart(data, index) ==
    IF index < 0 THEN Max(index + Len(data), 0) ELSE Min(index, Len(data))

\* data[index:]
PySliceFrom(data, index) ==
    SubSeq(data, PySliceStart(data, index) + 1, Len(data))

\* list.insert(index, value)
PyInsert(data, index, value) ==
    LET p == PySliceStart(data, index)
    IN  SubSeq(data, 1, p) \o <<value>> \o SubSeq(data, p + 1, Len(data))

\* del data[index], for an index that is defined
PyDel(data, index) ==
    LET p == PyPos(data, index)
    IN  SubSeq(data, 1, p - 1) \o SubSeq(data, p + 1, Len(data))

\* data[index] = value, for an index that is defined
PySet(data, index, value) == [data EXCEPT ![PyPos(data, index)] = value]

Reverse(s) == [k \in 1..Len(s) |-> s[Len(s) + 1 - k]]

(***************************************************************************)
(* The edge-tracked graph.                                                 *)
(***************************************************************************)
NumNodes == 3
MaxLen == 2
\* the number of container operations after which the model stops
MaxOps == 2
Nodes == 1..NumNodes
\* the indices a caller passes: negative and beyond the length included
Indices == (0 - (MaxLen + 2))..(MaxLen + 1)

\* A container state: the data of node n's Inputs, every node's uses, and the
\* exception that stopped the operation ("none" when it completed).
IRState(d, u, e) == [data |-> d, uses |-> u, exc |-> e]

\* set.remove: KeyError when the element is absent
UsesHas(u, t, n, i) == <<n, i>> \in u[t]
UsesRemove(u, t, n, i) == [u EXCEPT ![t] = @ \ {<<n, i>>}]
UsesAdd(u, t, n, i) == [u EXCEPT ![t] = @ \cup {<<n, i>>}]

\* Inputs.insert, the loop over reversed(self.data[index:]) from step k on
RECURSIVE InsertShift(_, _, _, _, _)
InsertShift(u, n, rtail, len, k) ==
    IF k > Len(rtail) THEN [uses |-> u, exc |-> "none"]
    ELSE LET nv == rtail[k]
             i == k - 1
         IN  IF ~UsesHas(u, nv, n, len - i - 1)
             THEN [uses |-> u, exc |-> "KeyError"]
             ELSE InsertShift(
                    UsesAdd(UsesRemove(u, nv, n, len - i - 1), nv, n, len - i),
                    n, rtail, len, k + 1)

\* the index at which Inputs.insert records the new edge
InsertEdgeIndex(index, len) == IF index < 0 THEN index + len ELSE index

\* Inputs.insert(index, value) on node n's container
InputsInsert(st, n, index, value) ==
    LET len == Len(st.data)
        ix == InsertEdgeIndex(index, len)
        sh == InsertShift(st.uses, n, Reverse(PySliceFrom(st.data, ix)), len, 1)
    IN  IF sh.exc # "none" THEN IRState(st.data, sh.uses, sh.exc)
        ELSE IRState(PyInsert(st.data, ix, value),
                     UsesAdd(sh.uses, value, n, ix), "none")

\* Inputs.__delitem__, the loop over self.data[index + 1:] from step k on
RECURSIVE DelShift(_, _, _, _, _)
DelShift(u, n, tail, index, k) ==
    IF k > Len(tail) THEN [uses |-> u, exc |-> "none"]
    ELSE LET nv == tail[k]
             i == k - 1
         IN  IF ~UsesHas(u, nv, n, i + index + 1)
             THEN [uses |-> u, exc |-> "KeyError"]
             ELSE DelShift(
                    UsesAdd(UsesRemove(u, nv, n, i + index + 1), nv, n, i + index),
                    n, tail, index, k + 1)

\* del inputs[index] on node n's container
InputsDelitem(st, n, index) ==
    LET len == Len(st.data)
        ix == IF index < 0 THEN index + len ELSE index
    IN  IF ~PyIndexOK(st.data, ix) THEN IRState(st.data, st.uses, "IndexError")
        ELSE LET value == PyGet(st.data, ix)
             IN  IF ~UsesHas(st.uses, value, n, ix)
                 THEN IRState(st.data, st.uses, "KeyError")
                 ELSE LET sh == DelShift(UsesRemove(st.uses, value, n, ix), n,
                                         PySliceFrom(st.data, ix + 1), ix, 1)
                      IN  IF sh.exc # "none"
                          THEN IRState(st.data, sh.uses, sh.exc)
                          ELSE IRState(PyDel(st.data, ix), sh.uses, "none")

\* inputs[index] = value on node n's container
InputsSetitem(st, n, index, value) ==
    LET len == Len(st.data)
        ix == IF index < 0 THEN index + len ELSE index
    IN  IF ~PyIndexOK(st.data, ix) THEN IRState(st.data, st.uses, "IndexError")
        ELSE LET old == PyGet(st.data, ix)
             IN  IF ~UsesHas(st.uses, old, n, ix)
                 THEN IRState(st.data, st.uses, "KeyError")
                 ELSE IRState(PySet(st.data, ix, value),
                              UsesAdd(UsesRemove(st.uses, old, n, ix), value, n, ix),
                              "none")

\* MutableSequence.extend on a container: append each value, that is
\* insert(len(self), value)
RECURSIVE InputsExtend(_, _, _, _)
InputsExtend(st, n, values, k) ==
    IF k > Len(values) \/ st.exc # "none" THEN st
    ELSE InputsExtend(InputsInsert(st, n, Len(st.data), values[k]), n, values, k + 1)

\* MutableSequence.clear: pop() until IndexError; pop is v = self[-1]; del self[-1]
RECURSIVE InputsClear(_, _)
InputsClear(st, n) ==
    IF Len(st.data) = 0 THEN st
    ELSE LET d == InputsDelitem(st, n, -1)
         IN  IF d.exc # "none" THEN d ELSE InputsClear(d, n)

\* Inputs.__init__(node, initlist): an empty container extended by initlist
InputsInit(u, n, initlist) == InputsExtend(IRState(<<>>, u, "none"), n, initlist, 1)

\* The ANFNode.inputs setter. own: the value assigned is the node's current
\* Inputs object itself, which clear() has emptied by the time it is read.
SetInputs(st, n, value, own) ==
    LET c == InputsClear(st, n)
    IN  IF c.exc # "none" THEN c
        ELSE InputsInit(c.uses, n, IF own THEN c.data ELSE value)

\* x == y on two nodes: ANFNode defines no __eq__, so it is identity
NodeEq(x, y) == x = y

\* all(x == y for x, y in zip(self, other)) from pair k on: zip stops at the
\* end of the shorter operand, all() at the first pair that differs
RECURSIVE ZipAllEq(_, _, _)
ZipAllEq(data, other, k) ==
    IF k > Len(data) \/ k > Len(other) THEN TRUE
    ELSE IF ~NodeEq(data[k], other[k]) THEN FALSE
    ELSE ZipAllEq(data, other, k + 1)

\* Inputs.__eq__(self, other)
InputsEq(data, other) == ZipAllEq(data, other, 1)

\* sequences over S of length at most m
RECURSIVE SeqsUpTo(_, _)
SeqsUpTo(S, m) ==
    IF m = 0 THEN {<<>>}
    ELSE LET shorter == SeqsUpTo(S, m - 1)
         IN  shorter \cup {Append(s, x) : s \in {t \in shorter : Len(t) = m - 1}, x \in S}

InitIR ==
    /\ alive = {}
    /\ inputs = [n \in Nodes |-> <<>>]
    /\ uses = [n \in Nodes |-> {}]
    /\ last = [op |-> "none", exc |-> "none"]
    /\ raised = FALSE
    /\ steps = 0
    /\ varcounts = <<>>
    /\ envs = <<>>
    /\ issued = <<>>
    /\ rebound = <<>>
    /\ prog = <<>>
    /\ hashorder = <<>>
    /\ out = <<>>

\* the state of node n's container
StateOf(n) == IRState(inputs[n], uses, "none")

\* an operation on node n's container has run and left st
Commit(n, st, op) ==
    /\ steps < MaxOps
    /\ last' = [op |-> op, exc |-> st.exc]
    /\ steps' = steps + 1
    /\ inputs' = [inputs EXCEPT ![n] = st.data]
    /\ uses' = st.uses
    /\ raised' = (raised \/ st.exc # "none")
    /\ UNCHANGED <<alive, symVars, parseVars>>

\* ANFNode.__init__(inputs, value, graph): the container first, then
\* self.uses = set()
Construct(n, L) ==
    /\ n \notin alive
    /\ LET st == InputsInit(uses, n, L)
       IN  /\ inputs' = [inputs EXCEPT ![n] = st.data]
           /\ uses' = [st.uses EXCEPT ![n] = {}]
    /\ alive' = alive \cup {n}
    /\ last' = [op |-> "construct", exc |-> "none"]
    /\ UNCHANGED <<raised, steps, symVars, parseVars>>

\* n.inputs.insert(i, v)
Insert(n, i, v) ==
    /\ n \in alive /\ v \in alive
    /\ Len(inputs[n]) < MaxLen
    /\ Commit(n, InputsInsert(StateOf(n), n, i, v), "insert")

\* n.inputs[i] = v
Setitem(n, i, v) ==
    /\ n \in alive /\ v \in alive
    /\ Commit(n, InputsSetitem(StateOf(n), n, i, v), "setitem")

\* del n.inputs[i]
Delitem(n, i) ==
    /\ n \in alive
    /\ Commit(n, InputsDelitem(StateOf(n), n, i), "delitem")

\* n.inputs = L, or n.inputs = n.inputs when own
AssignInputs(n, L, own) ==
    /\ n \in alive
    /\ own => L = inputs[n]
    /\ Commit(n, SetInputs(StateOf(n), n, L, own),
              IF own THEN "assign own inputs" ELSE "assign")

\* m.inputs == n.inputs
Eq(m, n) ==
    /\ m \in alive /\ n \in alive
    /\ steps < MaxOps
    /\ last' = [op |-> "eq", exc |-> "none", self |-> m, other |-> n,
                result |-> InputsEq(inputs[m], inputs[n])]
    /\ steps' = steps + 1
    /\ UNCHANGED <<alive, inputs, uses, raised, symVars, parseVars>>

NextIR ==
    \/ \E n \in Nodes, L \in SeqsUpTo(alive, MaxLen) : Construct(n, L)
    \/ \E n \in Nodes, i \in Indices, v \in Nodes : Insert(n, i, v)
    \/ \E n \in Nodes, i \in Indices, v \in Nodes : Setitem(n, i, v)
    \/ \E n \in Nodes, i \in Indices : Delitem(n, i)
    \/ \E n \in Nodes, L \in SeqsUpTo(alive, MaxLen), own \in BOOLEAN :
           AssignInputs(n, L, own)
    \/ \E m \in Nodes, n \in Nodes : Eq(m, n)

SpecIR == InitIR /\ [][NextIR]_vars

(***************************************************************************)
(* Claims about the edge-tracked graph.                                    *)
(***************************************************************************)

\* every input edge has its reverse edge
EveryInputIsUsed ==
    \A n \in alive : \A p \in 1..Len(inputs[n]) :
        <<n, p - 1>> \in uses[inputs[n][p]]

\* every reverse edge has its input edge
EveryUseIsAnInput ==
    \A t \in alive : \A e \in uses[t] :
        /\ e[1] \in alive
        /\ 0 <= e[2] /\ e[2] < Len(inputs[e[1]])
        /\ inputs[e[1]][e[2] + 1] = t

EdgeSymmetric == EveryInputIsUsed /\ EveryUseIsAnInput

\* C1: after any sequence of Inputs operations that completed without
\* raising, N.inputs[i] is T if and only if (N, i) is in T.uses, for every
\* node N, node T and index i.
C1_EdgeSymmetry == ~raised => EdgeSymmetric

\* what C8 says n.inputs[i] = v does
C8_ReplacePost(n, i, v) ==
    LET len == Len(inputs[n])
    IN  IF 0 - len <= i /\ i < len
        THEN LET p == IF i < 0 THEN i + len ELSE i
                 old == inputs[n][p + 1]
             IN  /\ last'.exc = "none"
                 /\ inputs' = [inputs EXCEPT ![n][p + 1] = v]
                 /\ uses' = UsesAdd(UsesRemove(uses, old, n, p), v, n, p)
        ELSE /\ last'.exc # "none"
             /\ inputs' = inputs
             /\ uses' = uses

\* C8: replacing the input at an existing position i of N puts the new node
\* there, moves the reverse edge (N, i) from the old node to the new one and
\* changes nothing else; at a position that does not exist the operation
\* fails and changes nothing.
C8_Replace ==
    [][\A n \in Nodes, i \in Indices, v \in Nodes :
          Setitem(n, i, v) => C8_ReplacePost(n, i, v)]_vars

\* what C9 says n.inputs = L leaves, for the L the caller passed
C9_BulkPost(n, L) ==
    /\ last'.exc = "none"
    /\ inputs' = [inputs EXCEPT ![n] = L]
    /\ \A p \in 1..Len(L) : <<n, p - 1>> \in uses'[L[p]]
    /\ \A t \in Nodes : \A e \in uses'[t] :
           e[1] = n => /\ 0 <= e[2] /\ e[2] < Len(L)
                       /\ L[e[2] + 1] = t
    /\ \A t \in Nodes : \A e \in uses'[t] : e[1] # n => e \in uses[t]
    /\ \A t \in Nodes : \A e \in uses[t] : e[1] # n => e \in uses'[t]

\* C9: assigning a sequence L to N.inputs, from a state whose edges are
\* symmetric, leaves N.inputs equal to L, a reverse edge (N, i) on every L[i]
\* and no other reverse edge to N, also when L is N's own current inputs.
C9_BulkReplace ==
    [][\A n \in Nodes, L \in SeqsUpTo(Nodes, MaxLen), own \in BOOLEAN :
          (EdgeSymmetric /\ AssignInputs(n, L, own)) => C9_BulkPost(n, L)]_vars

\* list equality: the same length and equal elements at every index
ListEq(data, other) ==
    /\ Len(data) = Len(other)
    /\ \A k \in 1..Len(data) : NodeEq(data[k], other[k])

\* C11: comparing two input containers with == gives true if and only if
\* they have the same length and equal elements at every index, whichever
\* nodes they are attached to.
C11_InputsEquality ==
    last.op = "eq" =>
        (last.result <=> ListEq(inputs[last.self], inputs[last.other]))

(***************************************************************************)
(* Strings are sequences of characters, so that formatting a name is an    *)
(* operation on text.  Python dicts are functions on a set of keys.        *)
(***************************************************************************)
Str1(c) == <<c>>
EmptyDict == <<>>
DictSet(d, key, val) ==
    [x \in (DOMAIN d) \cup {key} |-> IF x = key THEN val ELSE d[x]]

Digits == <<"0", "1", "2", "3", "4", "5", "6", "7", "8", "9">>

\* str(k) for an integer k >= 0
RECURSIVE Decimal(_)
Decimal(k) ==
    IF k < 10 THEN <<Digits[k + 1]>>
    ELSE Decimal(k \div 10) \o <<Digits[(k % 10) + 1]>>

\* '{}#{}'.format(name, count)
Format(name, count) == name \o <<"#">> \o Decimal(count)

(***************************************************************************)
(* GenSym and Env.                                                         *)
(***************************************************************************)
\* GenSym.name with the increment of the counter left out
GenSymNameNoIncrement(vc, name) ==
    IF name \in DOMAIN vc
    THEN [vc |-> vc, name |-> Format(name, vc[name])]
    ELSE [vc |-> DictSet(vc, name, 0), name |-> name]

\* GenSym.name(name) on the counter table vc: the new table and the name
GenSymName(vc, name) ==
    IF name \in DOMAIN vc
    THEN [vc |-> [vc EXCEPT ![name] = @ + 1], name |-> Format(name, vc[name] + 1)]
    ELSE [vc |-> DictSet(vc, name, 0), name |-> name]

Symbol(label, namespace) == [k |-> "Symbol", label |-> label, ns |-> namespace]
Redirect(key) == [k |-> "Redirect", key |-> key]
None == [k |-> "None"]

\* GenSym.sym(name): the new table and the symbol
GenSymSym(vc, name, namespace) ==
    LET g == GenSymName(vc, name)
    IN  [vc |-> g.vc, sym |-> Symbol(g.name, namespace)]

\* Env(parent): parent 0 is no parent
Env(parent) == [parent |-> parent, bindings |-> EmptyDict]

\* the depth of Python calls after which RecursionError is raised
RecursionLimit == 12

\* Env.get_free(name, redirect) in scope s; self.parent[name] is
\* parent.get_free(name)[1]
RECURSIVE EnvGetFree(_, _, _, _, _)
EnvGetFree(es, s, name, redirect, depth) ==
    IF depth = 0 THEN [exc |-> "RecursionError", free |-> FALSE, result |-> None]
    ELSE LET local == name \in DOMAIN es[s].bindings
         IN  IF ~local /\ es[s].parent = 0
             THEN [exc |-> "NameError", free |-> FALSE, result |-> None]
             ELSE LET got == IF local
                             THEN [exc |-> "none", free |-> FALSE,
                                   result |-> es[s].bindings[name]]
                             ELSE EnvGetFree(es, es[s].parent, name, TRUE, depth - 1)
                  IN  IF got.exc # "none" THEN got
                      ELSE IF redirect /\ got.result.k = "Redirect"
                      THEN EnvGetFree(es, s, got.result.key, TRUE, depth - 1)
                      ELSE [exc |-> "none", free |-> ~local, result |-> got.result]

\* Env.__getitem__(name)
EnvGetItem(es, s, name) == EnvGetFree(es, s, name, TRUE, RecursionLimit)

\* Env.update({key: val}) and Env.__setitem__ in scope s
EnvSet(es, s, key, val) ==
    [es EXCEPT ![s].bindings = DictSet(@, key, val)]

\* Parser.new_variable with the redirect of the base name left out
BindNewVariableNoRedirect(es, s, base_name, sym) ==
    EnvSet(es, s, sym.label, sym)

\* Parser.new_variable, the two updates of the scope: the base name redirected
\* to the symbol's label, then the symbol bound under its own label
BindNewVariable(es, s, base_name, sym) ==
    EnvSet(EnvSet(es, s, base_name, Redirect(sym.label)), s, sym.label, sym)

NumScopes == 2
MaxCalls == 4
Scopes == 1..NumScopes
\* names the host syntax allows as identifiers
Idents == {Str1("x"), Str1("y")}
\* the strings a caller of GenSym.name may pass
AnyBases == Idents \cup {<<"x", "#", "1">>, <<"#", "t", "m", "p">>}
UnitNamespace == "uuid"

InitSym ==
    /\ varcounts = EmptyDict
    /\ envs = [s \in Scopes |-> Env(s - 1)]
    /\ issued = <<>>
    /\ rebound = [s \in Scopes |-> [x \in Idents |-> <<>>]]
    /\ alive = {}
    /\ inputs = <<>>
    /\ uses = <<>>
    /\ last = <<>>
    /\ raised = FALSE
    /\ steps = 0
    /\ prog = <<>>
    /\ hashorder = <<>>
    /\ out = <<>>

\* gen.name(base), called by any scope of the unit
GenName(base) ==
    /\ Len(issued) < MaxCalls
    /\ LET g == GenSymName(varcounts, base)
       IN  /\ varcounts' = g.vc
           /\ issued' = Append(issued, [base |-> base, name |-> g.name])
    /\ UNCHANGED <<envs, rebound, irVars, parseVars>>

\* Parser.new_variable(base) in the parser whose scope is s
NewVariable(s, base) ==
    /\ Len(issued) < MaxCalls
    /\ LET g == GenSymSym(varcounts, base, UnitNamespace)
       IN  /\ varcounts' = g.vc
           /\ issued' = Append(issued, [base |-> base, name |-> g.sym.label])
           /\ envs' = BindNewVariable(envs, s, base, g.sym)
           /\ rebound' = [rebound EXCEPT ![s][base] = Append(@, g.sym)]
    /\ UNCHANGED <<irVars, parseVars>>

NextSym ==
    \/ \E base \in AnyBases : GenName(base)
    \/ \E s \in Scopes, base \in Idents : NewVariable(s, base)

SpecSym == InitSym /\ [][NextSym]_vars

(***************************************************************************)
(* Claims about fresh names and rebinding.                                 *)
(***************************************************************************)
IsDigit(c) == \E d \in 1..10 : Digits[d] = c

\* the text has the form b#k: a '#' followed by the decimal numeral of an
\* integer k >= 1
IsDerived(name) ==
    \E p \in 1..Len(name) :
        /\ name[p] = "#"
        /\ p < Len(name)
        /\ \A q \in (p + 1)..Len(name) : IsDigit(name[q])
        /\ name[p + 1] # "0"

\* the number of calls before call j that asked for the same base
Repeats(j) == Cardinality({i \in 1..(j - 1) : issued[i].base = issued[j].base})

IssuedDistinct ==
    \A i, j \in 1..Len(issued) : i # j => issued[i].name # issued[j].name

IssuedByCount ==
    \A j \in 1..Len(issued) :
        issued[j].name = IF Repeats(j) = 0 THEN issued[j].base
                         ELSE Format(issued[j].base, Repeats(j))

C4_Rebinding ==
    \A s \in Scopes, x \in Idents :
        LET syms == rebound[s][x]
            r == EnvGetItem(envs, s, x)
        IN  syms # <<>> =>
               /\ r.exc = "none"
               /\ r.result.k = "Symbol"
               /\ r.result = syms[Len(syms)]
               /\ \A i, j \in 1..Len(syms) : i # j => syms[i] # syms[j]

\* x rebound twice in the child scope, the second time last, y rebound there
\* too, and a fresh name for x requested without rebinding it
C4_Witness ==
    /\ Len(rebound[2][Str1("x")]) >= 2
    /\ Len(rebound[2][Str1("y")]) >= 1
    /\ issued[Len(issued)].base = Str1("x")
    /\ rebound[1][Str1("x")] = <<>>
    /\ Cardinality({j \in 1..Len(issued) : issued[j].base = Str1("x")}) = 3

(***************************************************************************)
(* The lowering pass.                                                      *)
(*                                                                         *)
(* A syntax tree node is a record with its class name in k.  Its location  *)
(* is the path from the root of the tree to it.  The forms of myia.ast are *)
(* records too, without their locations.                                   *)
(*                                                                         *)
(* A world w is everything the parsers of one compilation share or own:    *)
(*   ps    the parsers created so far; parser p is ps[p], with its Env     *)
(*         (parent, bindings) and its free_variables, local_assignments,   *)
(*         returns and return_error                                        *)
(*   vc    varcounts of the GenSym all parsers' scopes share               *)
(*   gvc   varcounts of global_env's own GenSym                            *)
(*   genv  global_env.bindings                                             *)
(*   gacc  globals_accessed                                                *)
(*   order the order in which this build iterates over a set of names      *)
(*   calls the history of the statement visits that have ended             *)
(*   applied the history of the calls of visit_body's helper               *)
(* A visit returns the world it leaves, the exception it raised and, when  *)
(* it raised none, its value.                                              *)
(***************************************************************************)
NoExc == [type |-> "none", location |-> <<>>, message |-> <<>>]
MyiaSyntaxError(location, message) ==
    [type |-> "MyiaSyntaxError", location |-> location, message |-> message]
\* an exception of Python itself
PyError(type, what) == [type |-> type, location |-> <<>>, message |-> <<what>>]

Ok(w, r) == [w |-> w, exc |-> NoExc, r |-> r]
Fail(w, e) == [w |-> w, exc |-> e, r |-> None]
Failed(x) == x.exc.type # "none"

\* the forms of myia.ast the pass constructs
Literal(v) == [k |-> "Literal", value |-> v]
LetRec(bs, body) == [k |-> "LetRec", bindings |-> bs, body |-> body]
IfExpr(c, t, f) == [k |-> "If", cond |-> c, t |-> t, f |-> f]
Lambda(name, args, body) == [k |-> "Lambda", name |-> name, args |-> args, body |-> body]
Apply(fn, args) == [k |-> "Apply", fn |-> fn, args |-> args]
Begin(stmts) == [k |-> "Begin", stmts |-> stmts]
MkTuple(values) == [k |-> "Tuple", values |-> values]
\* front._Assign
AssignStmt(varname, value, location) ==
    [k |-> "_Assign", varname |-> varname, value |-> value, location |-> location]

\* get_operator(node.op) and builtins.index of myia.symbols
Operator(op) == Symbol(<<op>>, "builtin")
BuiltinIndex == Symbol(<<"index">>, "builtin")

NoReturnError == "None"
WhileReturnError == "While loops cannot contain return statements."
WhileName == <<"#", "w", "h", "i", "l", "e">>
TmpName == <<"#", "t", "m", "p">>

\* a Parser that does not take its parent's return_error
NewParserNoInherit(w, parent) ==
    [w EXCEPT !.ps = Append(@,
        [parent |-> parent,
         bindings |-> EmptyDict,
         free_variables |-> EmptyDict,
         local_assignments |-> {},
         returns |-> FALSE,
         return_error |-> NoReturnError])]

\* Parser(parent) of a parser parent; Parser(locator, global_env) when parent = 0
NewParser(w, parent) ==
    [w EXCEPT !.ps = Append(@,
        [parent |-> parent,
         bindings |-> EmptyDict,
         free_variables |-> EmptyDict,
         local_assignments |-> {},
         returns |-> FALSE,
         return_error |-> IF parent = 0 THEN NoReturnError
                          ELSE w.ps[parent].return_error])]

\* the parser NewParser has just created
Newest(w) == Len(w.ps)

\* parse_source: the root parser, its empty scope and the empty global_env
InitWorld(order) ==
    NewParser([ps |-> <<>>, vc |-> EmptyDict, gvc |-> EmptyDict,
               genv |-> EmptyDict, gacc |-> {}, order |-> order,
               calls |-> <<>>, applied |-> <<>>], 0)

\* the rest of a handler after a step, given the step's value
Bind(value, rest(_)) == rest(value)

\* the rest of a handler after a call: not reached when the call raised
Try(x, rest(_)) == IF Failed(x) THEN x ELSE rest(x)

\* Parser.gensym(name)
Gensym(w, name) ==
    Bind(GenSymSym(w.vc, name, UnitNamespace), LAMBDA g :
        [w |-> [w EXCEPT !.vc = g.vc], sym |-> g.sym])

\* Parser.new_variable(base_name) in parser p
ParserNewVariable(w, p, base_name) ==
    Bind(Gensym(w, base_name), LAMBDA g :
        [w |-> [g.w EXCEPT !.ps = BindNewVariable(@, p, base_name, g.sym)],
         sym |-> g.sym])

\* Parser.make_assign(base_name, value, location) in parser p
MakeAssign(w, p, base_name, value, location) ==
    Bind(ParserNewVariable(w, p, base_name), LAMBDA nv :
        Ok([nv.w EXCEPT !.ps[p].local_assignments = @ \cup {base_name}],
           AssignStmt(nv.sym, value, location)))

\* Parser.visit_Name
VisitName(w, p, node) ==
    Bind(EnvGetFree(w.ps, p, node.id, TRUE, RecursionLimit), LAMBDA g :
        IF g.exc = "NameError"
        THEN Ok([w EXCEPT !.gacc = @ \cup {node.id}], Symbol(node.id, "global"))
        ELSE IF g.exc # "none" THEN Fail(w, PyError(g.exc, "get_free"))
        ELSE IF g.free
        THEN Ok([w EXCEPT !.ps[p].free_variables = DictSet(@, node.id, g.result)],
                g.result)
        ELSE Ok(w, g.result))

\* Parser.visit_Num
VisitNum(w, p, node) == Ok(w, Literal(node.n))

RECURSIVE Visit(_, _, _, _)

\* Parser.visit_BinOp
VisitBinOp(w, p, node, loc) ==
    Try(Visit(w, p, node.left, loc \o <<"left">>), LAMBDA l :
    Try(Visit(l.w, p, node.right, loc \o <<"right">>), LAMBDA r :
        Ok(r.w, Apply(Operator(node.op), <<l.r, r.r>>))))

\* Parser.visit_Compare
VisitCompare(w, p, node, loc) ==
    IF Len(node.ops) # 1
    THEN Fail(w, MyiaSyntaxError(loc,
                    <<"Comparisons must have a maximum of two operands">>))
    ELSE Try(Visit(w, p, node.left, loc \o <<"left">>), LAMBDA l :
         Try(Visit(l.w, p, node.comparators[1], loc \o <<"right">>), LAMBDA r :
             Ok(r.w, Apply(Operator(node.ops[1]), <<l.r, r.r>>))))

\* Parser.visit_Expr
VisitExpr(w, p, node, loc) == Visit(w, p, node.value, loc \o <<"value">>)

\* Parser.visit_Return
VisitReturn(w, p, node, loc) ==
    IF w.ps[p].return_error # NoReturnError
    THEN Fail(w, MyiaSyntaxError(loc, <<w.ps[p].return_error>>))
    ELSE Visit([w EXCEPT !.ps[p].returns = TRUE], p, node.value, loc \o <<"value">>)

\* Parser.visit_Assign
VisitAssign(w, p, node, loc) ==
    IF Len(node.targets) # 1
    THEN Fail(w, PyError("ValueError", "too many values to unpack (expected 1)"))
    ELSE IF node.targets[1].k = "Tuple"
    THEN Fail(w, MyiaSyntaxError(loc, <<"Deconstructing assignment is not supported.">>))
    ELSE Try(Visit(w, p, node.value, loc \o <<"value">>), LAMBDA val :
             IF node.targets[1].k # "Name"
             THEN Fail(val.w, PyError("AttributeError", "object has no attribute 'id'"))
             ELSE MakeAssign(val.w, p, node.targets[1].id, val.r, loc))

\* the characters of the names, in code point order
Alphabet == <<"#", "0", "1", "2", "3", "4", "5", "6", "7", "8", "9",
              "a", "b", "c", "e", "f", "g", "h", "i", "l", "m", "n", "p",
              "t", "w", "x", "y">>
CharRank(c) == CHOOSE r \in 1..Len(Alphabet) : Alphabet[r] = c

\* s < t for Python strings
RECURSIVE StrLess(_, _)
StrLess(s, t) ==
    IF Len(t) = 0 THEN FALSE
    ELSE IF Len(s) = 0 THEN TRUE
    ELSE IF s[1] = t[1] THEN StrLess(Tail(s), Tail(t))
    ELSE CharRank(s[1]) < CharRank(t[1])

\* sorted(names)
RECURSIVE Sorted(_)
Sorted(names) ==
    IF names = {} THEN <<>>
    ELSE Bind(CHOOSE x \in names : \A y \in names \ {x} : StrLess(x, y), LAMBDA least :
              <<least>> \o Sorted(names \ {least}))

\* " ".join(strs)
RECURSIVE JoinSpace(_)
JoinSpace(strs) ==
    IF Len(strs) = 0 THEN <<>>
    ELSE IF Len(strs) = 1 THEN strs[1]
    ELSE strs[1] \o <<" ">> \o JoinSpace(Tail(strs))

\* list(names) for a set of names: the build's iteration order
RECURSIVE ListOfSet(_, _)
ListOfSet(names, order) ==
    IF Len(order) = 0 THEN <<>>
    ELSE (IF Head(order) \in names THEN <<Head(order)>> ELSE <<>>)
            \o ListOfSet(names, Tail(order))

\* group(arr, classify) with classify = isinstance(x, _Assign), from arr[k] on
RECURSIVE Group(_, _, _)
Group(arr, k, acc) ==
    IF k > Len(arr) THEN acc
    ELSE IF Len(acc) > 0 /\ acc[Len(acc)].isass = (arr[k].k = "_Assign")
    THEN Group(arr, k + 1, [acc EXCEPT ![Len(acc)].grp = Append(@, arr[k])])
    ELSE Group(arr, k + 1, Append(acc, [isass |-> arr[k].k = "_Assign",
                                         grp |-> <<arr[k]>>]))

HelperOk(r) == [exc |-> NoExc, r |-> r]
HelperFail(e) == [exc |-> e, r |-> None]

\* tuple((a.varname, a.value) for a in grp)
Bindings(grp) == [i \in 1..Len(grp) |-> <<grp[i].varname, grp[i].value>>]

\* helper(groups, result) of Parser.visit_body; result None is no result
RECURSIVE Helper(_, _)
Helper(groups, result) ==
    IF Len(groups) = 0
    THEN HelperFail(PyError("ValueError", "not enough values to unpack"))
    ELSE IF groups[1].isass
    THEN IF Len(groups) = 1
         THEN IF result.k = "None"
              THEN HelperFail(MyiaSyntaxError(
                       groups[1].grp[Len(groups[1].grp)].location,
                       <<"Missing return statement.">>))
              ELSE HelperOk(LetRec(Bindings(groups[1].grp), result))
         ELSE Try(Helper(Tail(groups), result), LAMBDA h :
                  HelperOk(LetRec(Bindings(groups[1].grp), h.r)))
    ELSE IF Len(groups) = 1
    THEN IF Len(groups[1].grp) = 1 THEN HelperOk(groups[1].grp[1])
         ELSE HelperOk(Begin(groups[1].grp))
    ELSE Try(Helper(Tail(groups), result), LAMBDA h :
             HelperOk(Begin(Append(groups[1].grp, h.r))))

\* the body of a wrapper visit_body returned, applied to v; the call is
\* added to the history w.applied with what it returned or raised
ApplyBody(w, groups, v) ==
    Bind(Helper(groups, v), LAMBDA h :
    Bind([w EXCEPT !.applied = Append(@, [groups |-> groups, result |-> v,
                                           exc |-> h.exc, r |-> h.r])],
         LAMBDA w1 : IF Failed(h) THEN Fail(w1, h.exc) ELSE Ok(w1, h.r)))

\* Parser.visit_body, the loop over stmts from stmts[k] on
RECURSIVE VisitStmts(_, _, _, _, _, _)
VisitStmts(w, p, stmts, path, k, results) ==
    IF k > Len(stmts) THEN Ok(w, results)
    ELSE Try(Visit(w, p, stmts[k], path \o <<ToString(k)>>), LAMBDA r :
             IF w.ps[p].returns
             THEN Fail(r.w, MyiaSyntaxError(
                              IF r.r.k = "_Assign" THEN r.r.location
                              ELSE path \o <<ToString(k)>>,
                              <<"There should be no statements after return.">>))
             ELSE VisitStmts(r.w, p, stmts, path, k + 1,
                             IF r.r.k = "Begin" THEN results \o r.r.stmts
                             ELSE Append(results, r.r)))

\* Parser.visit_body(stmts, return_wrapper): with return_wrapper the value is
\* the groups the returned wrapper closes over
VisitBody(w, p, stmts, path, return_wrapper) ==
    Try(VisitStmts(w, p, stmts, path, 1, <<>>), LAMBDA v :
        IF return_wrapper THEN Ok(v.w, Group(v.r, 1, <<>>))
        ELSE ApplyBody(v.w, Group(v.r, 1, <<>>), None))

\* [p.gensym(v) for v in names], from names[k] on
RECURSIVE GensymAll(_, _, _, _)
GensymAll(w, names, k, syms) ==
    IF k > Len(names) THEN [w |-> w, syms |-> syms]
    ELSE Bind(Gensym(w, names[k]), LAMBDA g :
              GensymAll(g.w, names, k + 1, Append(syms, g.sym)))

\* env.update({v: s for v, s in zip(names, syms)}) in parser p
RECURSIVE EnvUpdateAll(_, _, _, _, _)
EnvUpdateAll(es, p, names, syms, k) ==
    IF k > Len(names) \/ k > Len(syms) THEN es
    ELSE EnvUpdateAll(EnvSet(es, p, names[k], syms[k]), p, names, syms, k + 1)

\* [env[v] for v in names] in parser p, from names[k] on
RECURSIVE LookupAll(_, _, _, _, _)
LookupAll(es, p, names, k, vals) ==
    IF k > Len(names) THEN [exc |-> "none", vals |-> vals]
    ELSE Bind(EnvGetItem(es, p, names[k]), LAMBDA g :
              IF g.exc # "none" THEN [exc |-> g.exc, vals |-> vals]
              ELSE LookupAll(es, p, names, k + 1, Append(vals, g.result)))

\* the rest of a handler after [env[v] for v in names] in parser p, given
\* the list: not reached when a lookup raised
TryLookup(w, p, names, rest(_)) ==
    Bind(LookupAll(w.ps, p, names, 1, <<>>), LAMBDA l :
         IF l.exc # "none" THEN Fail(w, PyError(l.exc, "env[v]"))
         ELSE rest(l.vals))

\* the unpacking loop of visit_While and visit_If:
\* for i, v in enumerate(names): stmts.append(make_assign(v, index(tmp, i)))
RECURSIVE Unpack(_, _, _, _, _, _)
Unpack(w, p, names, tmp, k, stmts) ==
    IF k > Len(names) THEN Ok(w, Begin(stmts))
    ELSE Bind(MakeAssign(w, p, names[k],
                         Apply(BuiltinIndex, <<tmp, Literal(k - 1)>>), <<>>),
              LAMBDA a : Unpack(a.w, p, names, tmp, k + 1, Append(stmts, a.r)))

\* Parser.visit_While, the call site: w is the world with the function
\* registered
WhileCallSite(w, p, fsym, in_vars, out_vars) ==
    Bind(Gensym(w, TmpName), LAMBDA tmp :
    TryLookup(tmp.w, p, in_vars, LAMBDA args :
        Unpack(tmp.w, p, out_vars, tmp.sym, 1,
               <<AssignStmt(tmp.sym, Apply(fsym, <<MkTuple(args)>>), <<>>)>>)))

\* Parser.visit_While, the second pass, in the parser p2 that NewParser has
\* just created in w, with in_syms generated
WhileLower(w, p, node, loc, fsym, in_vars, out_vars, in_syms, p2) ==
    Try(Visit([w EXCEPT !.ps = EnvUpdateAll(@, p2, in_vars, in_syms, 1)],
              p2, node.test, loc \o <<"test">>), LAMBDA test :
    TryLookup(test.w, p2, out_vars, LAMBDA initial_values :
    Try(VisitBody(test.w, p2, node.body, loc \o <<"body">>, TRUE), LAMBDA body :
    TryLookup(body.w, p2, in_vars, LAMBDA now :
    Try(ApplyBody(body.w, body.r, Apply(fsym, now)), LAMBDA again :
        WhileCallSite([again.w EXCEPT
                         !.genv = DictSet(@, fsym.label,
                             Lambda(fsym.label, in_syms,
                                    IfExpr(test.r, again.r, MkTuple(initial_values)))),
                         !.gacc = @ \cup {fsym.label}],
                      p, fsym, in_vars, out_vars))))))

\* Parser.visit_While, from the end of the first pass on: fsym is the
\* function's symbol, w the world the first pass left, p1 its parser
WhileSecondPass(w, p, node, loc, fsym, p1) ==
    Bind(ListOfSet((DOMAIN w.ps[p1].free_variables)
                      \cup w.ps[p1].local_assignments, w.order), LAMBDA in_vars :
    Bind(NewParser(w, p), LAMBDA w2 :
    Bind(GensymAll(w2, in_vars, 1, <<>>), LAMBDA g :
        WhileLower(g.w, p, node, loc, fsym, in_vars,
                   ListOfSet(w.ps[p1].local_assignments, w.order),
                   g.syms, Newest(w2)))))

\* Parser.visit_While
VisitWhile(w, p, node, loc) ==
    Bind(GenSymSym(w.gvc, WhileName, "global"), LAMBDA f :
    Bind(NewParser([w EXCEPT !.gvc = f.vc], p), LAMBDA w1 :
    Try(VisitBody([w1 EXCEPT !.ps[Newest(w1)].return_error = WhileReturnError],
                  Newest(w1), node.body, loc \o <<"body">>, TRUE), LAMBDA first :
        WhileSecondPass(first.w, p, node, loc, f.sym, Newest(w1)))))

BranchReturnMessage ==
    "Either none or all branches of an if statement must return a value."
\* the message with the two sets the other way round
BranchAssignMessageSwapped(true_sets, else_sets) ==
    <<"All branches of an if statement must assign to the same set of variables.",
      "True branch sets: ", JoinSpace(Sorted(else_sets)),
      "Else branch sets: ", JoinSpace(Sorted(true_sets))>>
BranchAssignMessage(true_sets, else_sets) ==
    <<"All branches of an if statement must assign to the same set of variables.",
      "True branch sets: ", JoinSpace(Sorted(true_sets)),
      "Else branch sets: ", JoinSpace(Sorted(else_sets))>>

\* Parser.visit_If when both branches return: body and orelse are the
\* branches' groups
IfReturning(w, p, node, loc, body, orelse) ==
    Try(Visit([w EXCEPT !.ps[p].returns = TRUE], p, node.test, loc \o <<"test">>),
        LAMBDA test :
    Try(ApplyBody(test.w, body, None), LAMBDA t :
    Try(ApplyBody(t.w, orelse, None), LAMBDA f :
        Ok(f.w, IfExpr(test.r, t.r, f.r)))))

\* Parser.visit_If when neither branch returns: p1 and p2 are the branches'
\* parsers
IfAssigning(w, p, node, loc, body, orelse, p1, p2) ==
    Bind(ListOfSet(w.ps[p1].local_assignments, w.order), LAMBDA ass :
    Try(Visit(w, p, node.test, loc \o <<"test">>), LAMBDA test :
    TryLookup(test.w, p1, ass, LAMBDA v1 :
    Try(ApplyBody(test.w, body, IF Len(ass) = 1 THEN v1[1] ELSE MkTuple(v1)),
        LAMBDA t :
    TryLookup(t.w, p2, ass, LAMBDA v2 :
    Try(ApplyBody(t.w, orelse, IF Len(ass) = 1 THEN v2[1] ELSE MkTuple(v2)),
        LAMBDA f :
        IF Len(ass) = 1
        THEN MakeAssign(f.w, p, ass[1], IfExpr(test.r, t.r, f.r), <<>>)
        ELSE Bind(Gensym(f.w, TmpName), LAMBDA tmp :
                  Unpack(tmp.w, p, ass, tmp.sym, 1,
                         <<AssignStmt(tmp.sym, IfExpr(test.r, t.r, f.r), <<>>)>>))))))))

\* Parser.visit_If, from the checks on
IfChecked(w, p, node, loc, body, orelse, p1, p2) ==
    IF w.ps[p1].returns # w.ps[p2].returns
    THEN Fail(w, MyiaSyntaxError(loc, <<BranchReturnMessage>>))
    ELSE IF w.ps[p1].local_assignments # w.ps[p2].local_assignments
    THEN Fail(w, MyiaSyntaxError(loc,
                    BranchAssignMessage(w.ps[p1].local_assignments,
                                        w.ps[p2].local_assignments)))
    ELSE IF w.ps[p1].returns
    THEN IfReturning(w, p, node, loc, body, orelse)
    ELSE IfAssigning(w, p, node, loc, body, orelse, p1, p2)

\* Parser.visit_If
VisitIf(w, p, node, loc) ==
    Bind(NewParser(w, p), LAMBDA w1 :
    Try(VisitBody(w1, Newest(w1), node.body, loc \o <<"body">>, TRUE), LAMBDA body :
    Bind(NewParser(body.w, p), LAMBDA w2 :
    Try(VisitBody(w2, Newest(w2), node.orelse, loc \o <<"orelse">>, TRUE),
        LAMBDA orelse :
        IfChecked(orelse.w, p, node, loc, body.r, orelse.r, Newest(w1), Newest(w2))))))

\* Parser.visit_FunctionDef, after the checks of the signature
FunctionDefBody(w, p, node, loc) ==
    Bind(NewParser(w, p), LAMBDA w1 :
    Bind(GensymAll(w1, node.args, 1, <<>>), LAMBDA g :
    Try(VisitBody([g.w EXCEPT !.ps = EnvUpdateAll(@, Newest(w1), node.args, g.syms, 1)],
                  Newest(w1), node.body, loc \o <<"body">>, FALSE), LAMBDA result :
        IF DOMAIN result.w.ps[Newest(w1)].free_variables # {}
        \* items(subp.free_variables): no function items is defined
        THEN Fail(result.w, PyError("NameError", "name 'items' is not defined"))
        ELSE IF ~result.w.ps[Newest(w1)].returns
        THEN Fail(result.w, MyiaSyntaxError(loc, <<"Function does not return a value.">>))
        ELSE Ok([result.w EXCEPT !.genv = DictSet(@, node.name,
                                    Lambda(node.name, g.syms, result.r))],
                Symbol(node.name, "global")))))

\* Parser.visit_FunctionDef
VisitFunctionDef(w, p, node, loc, allow_decorator) ==
    IF node.vararg \/ node.kwarg
    THEN Fail(w, MyiaSyntaxError(loc, <<"Varargs are not allowed.">>))
    ELSE IF node.kwonlyargs
    THEN Fail(w, MyiaSyntaxError(loc, <<"Keyword-only arguments are not allowed.">>))
    ELSE IF node.defaults
    THEN Fail(w, MyiaSyntaxError(loc, <<"Default arguments are not allowed.">>))
    ELSE IF ~allow_decorator /\ node.decorators
    THEN Fail(w, MyiaSyntaxError(loc, <<"Functions should not have decorators.">>))
    ELSE FunctionDefBody(w, p, node, loc)

\* the classes of statements
Statements == {"Assign", "Return", "Expr", "While", "If", "FunctionDef", "Pass"}

\* the visit x of node, by parser p, has ended: a statement's visit is added
\* to the history w.calls with the exception it ended with and its value
Ended(x, p, node, loc) ==
    IF node.k \in Statements
    THEN [x EXCEPT !.w.calls = Append(@, [node |-> node, loc |-> loc,
                                           p |-> p, exc |-> x.exc, r |-> x.r])]
    ELSE x

\* LocVisitor.visit(node, **kwargs) in parser p; loc is make_location(node).
\* allow_decorator is the keyword argument parse_source passes, to the visit
\* of a function definition.
VisitKw(w, p, node, loc, allow_decorator) ==
    Ended(CASE node.k = "Name" -> VisitName(w, p, node)
            [] node.k = "Num" -> VisitNum(w, p, node)
            [] node.k = "BinOp" -> VisitBinOp(w, p, node, loc)
            [] node.k = "Compare" -> VisitCompare(w, p, node, loc)
            [] node.k = "Expr" -> VisitExpr(w, p, node, loc)
            [] node.k = "Return" -> VisitReturn(w, p, node, loc)
            [] node.k = "Assign" -> VisitAssign(w, p, node, loc)
            [] node.k = "While" -> VisitWhile(w, p, node, loc)
            [] node.k = "If" -> VisitIf(w, p, node, loc)
            [] node.k = "FunctionDef" ->
                   VisitFunctionDef(w, p, node, loc, allow_decorator)
            [] OTHER -> Fail(w, MyiaSyntaxError(loc,
                           <<"Unrecognized Python AST node type: ", node.k>>)),
          p, node, loc)

\* LocVisitor.visit(node)
Visit(w, p, node, loc) == VisitKw(w, p, node, loc, FALSE)

\* parse_source: p.visit(tree, allow_decorator=True) in the root parser, for
\* the tree of a function definition
ParseSource(tree, order) == VisitKw(InitWorld(order), 1, tree, <<>>, TRUE)

(***************************************************************************)
(* The syntax trees parse_source is given: what ast.parse makes of the     *)
(* source text of one function.                                            *)
(***************************************************************************)
PyName(id) == [k |-> "Name", id |-> id]
PyNum(n) == [k |-> "Num", n |-> n]
PyCompare(left, op, right) ==
    [k |-> "Compare", left |-> left, ops |-> <<op>>, comparators |-> <<right>>]
PyBinOp(left, op, right) == [k |-> "BinOp", left |-> left, op |-> op, right |-> right]
PyTarget(kind) == [k |-> kind]
PyAssign(targets, value) == [k |-> "Assign", targets |-> targets, value |-> value]
PyReturn(value) == [k |-> "Return", value |-> value]
PyExpr(value) == [k |-> "Expr", value |-> value]
PyWhile(test, body) == [k |-> "While", test |-> test, body |-> body]
PyIf(test, body, orelse) == [k |-> "If", test |-> test, body |-> body, orelse |-> orelse]
PyFunctionDef(name, args, body) ==
    [k |-> "FunctionDef", name |-> name, args |-> args, body |-> body,
     vararg |-> FALSE, kwarg |-> FALSE, kwonlyargs |-> FALSE, defaults |-> FALSE,
     decorators |-> FALSE]

A == Str1("a")
B == Str1("b")
C == Str1("c")
F == Str1("f")
G == Str1("g")
Locals == {A, B, C}

\* the orders a set of names can be iterated in
RECURSIVE Perms(_)
Perms(S) ==
    IF S = {} THEN {<<>>}
    ELSE UNION {{<<x>> \o t : t \in Perms(S \ {x})} : x \in S}
Orders == Perms(Locals)

\* the statements of a branch, a loop body or a function body: at most
MaxBody == 2
Blocks(S) == SeqsUpTo(S, MaxBody) \ {<<>>}

AssignOne == PyAssign(<<PyName(A)>>, PyNum(1))                           \* a = 1
AssignSum == PyAssign(<<PyName(B)>>, PyBinOp(PyName(A), "Add", PyNum(1))) \* b = a + 1
AssignCopy == PyAssign(<<PyName(C)>>, PyName(B))                         \* c = b
ReturnA == PyReturn(PyName(A))                                           \* return a
ReturnB == PyReturn(PyName(B))                                           \* return b
ReturnC == PyReturn(PyName(C))                                           \* return c
ExprC == PyExpr(PyName(C))                                               \* c
Pass == [k |-> "Pass"]                                                   \* pass
MultiTarget == PyAssign(<<PyName(A), PyName(B)>>, PyNum(1))              \* a = b = 1
TupleTarget == PyAssign(<<PyTarget("Tuple")>>, PyName(C))                \* (a, b) = c
ListTarget == PyAssign(<<PyTarget("List")>>, PyName(C))                  \* [a, b] = c

Straight == {AssignOne, AssignSum, AssignCopy, ReturnA}
Simple == Straight \cup {ExprC, Pass, MultiTarget, TupleTarget, ListTarget}
Tests == {PyName(C), PyCompare(PyName(A), "Lt", PyName(C))}

\* the nested function definitions: def g(b) with a body that reads its own
\* parameter, the enclosing function's parameter c, or both
Defs ==
    {PyFunctionDef(G, <<B>>, body) : body \in
        {<<ReturnB>>, <<ReturnC>>, <<ExprC, ReturnB>>,
         <<PyIf(PyName(B), <<ReturnC>>, <<ReturnB>>)>>,
         <<PyWhile(PyName(C), <<ExprC>>), ReturnB>>,
         <<PyWhile(PyName(B), <<ExprC>>), ReturnB>>}}

\* the statements nested in a branch or in a loop body
Inner ==
    {PyIf(PyName(C), <<AssignOne>>, <<AssignOne>>),
     PyIf(PyName(C), <<AssignOne>>, <<AssignSum>>),
     PyIf(PyName(C), <<AssignCopy>>, <<ExprC>>),
     PyIf(PyName(C), <<ReturnA>>, <<ReturnA>>),
     PyIf(PyName(C), <<AssignOne, ReturnA>>, <<ReturnA>>),
     PyWhile(PyName(C), <<AssignOne>>),
     PyWhile(PyName(C), <<ReturnA>>),
     PyFunctionDef(G, <<B>>, <<ReturnB>>),
     PyFunctionDef(G, <<B>>, <<ReturnC>>)}

IfBlocks == Blocks(Straight) \cup {<<x>> : x \in Inner}
LoopBlocks == Blocks(Straight \cup {ExprC}) \cup {<<x>> : x \in Inner}
                 \cup {<<AssignOne, x>> : x \in Inner}
Ifs == {PyIf(PyName(C), body, orelse) : body \in IfBlocks, orelse \in IfBlocks}
Loops == {PyWhile(test, body) : test \in Tests, body \in LoopBlocks}

\* def f(c) with one statement of any kind, after nothing, a = 1 or
\* a = 1; b = a + 1, and before return a or nothing
Programs ==
    {PyFunctionDef(F, <<C>>, pre \o <<x>> \o post) :
        pre \in {<<>>, <<AssignOne>>, <<AssignOne, AssignSum>>},
        x \in Simple \cup Ifs \cup Loops \cup Defs,
        post \in {<<>>, <<ReturnA>>}}

NotRun == [ran |-> FALSE]

InitParse ==
    /\ prog \in Programs
    /\ hashorder = <<>>
    /\ out = NotRun
    /\ alive = <<>> /\ inputs = <<>> /\ uses = <<>> /\ last = <<>>
    /\ raised = <<>> /\ steps = <<>>
    /\ varcounts = <<>> /\ envs = <<>> /\ issued = <<>> /\ rebound = <<>>

\* parse_source on the source of prog, in a build that iterates in order
Parse(order) ==
    /\ ~out.ran
    /\ hashorder' = order
    /\ out' = [ran |-> TRUE] @@ ParseSource(prog, order)
    /\ UNCHANGED <<prog, irVars, symVars>>

NextParse == \E order \in Orders : Parse(order)

SpecParse == InitParse /\ [][NextParse]_vars

(***************************************************************************)
(* What the source text of prog says, read off its tree.                   *)
(***************************************************************************)
\* the statement of tree node at path, a path of (block, position) pairs
RECURSIVE NodeAt(_, _)
NodeAt(node, path) ==
    IF Len(path) = 0 THEN node
    ELSE LET block == node[path[1]]
             k == CHOOSE i \in 1..Len(block) : ToString(i) = path[2]
         IN  NodeAt(block[k], SubSeq(path, 3, Len(path)))

\* the statement at loc is inside the body of a while-loop
InLoop(tree, loc) ==
    \E n \in 0..(Len(loc) - 2) :
        /\ n % 2 = 0
        /\ NodeAt(tree, SubSeq(loc, 1, n)).k = "While"
        /\ loc[n + 1] = "body"

\* block contains a return statement that is inside a while-loop
RECURSIVE ReturnInLoop(_, _)
ReturnInLoop(block, inloop) ==
    \E k \in 1..Len(block) :
        LET s == block[k]
        IN  CASE s.k = "Return" -> inloop
              [] s.k = "If" -> ReturnInLoop(s.body, inloop) \/ ReturnInLoop(s.orelse, inloop)
              [] s.k = "While" -> ReturnInLoop(s.body, TRUE)
              [] s.k = "FunctionDef" -> ReturnInLoop(s.body, inloop)
              [] OTHER -> FALSE

\* the block ends in a return on every path through it
RECURSIVE BlockReturns(_)
BlockReturns(block) ==
    \E k \in 1..Len(block) :
        \/ block[k].k = "Return"
        \/ block[k].k = "If" /\ BlockReturns(block[k].body)
                             /\ BlockReturns(block[k].orelse)

\* no statement of the block follows one that returns
NoDeadCode(block) ==
    \A k \in 1..(Len(block) - 1) : ~BlockReturns(<<block[k]>>)

\* the names the block assigns in its own scope: by an assignment, by a
\* conditional that does not return, by a loop
RECURSIVE BlockAssigns(_)
BlockAssigns(block) ==
    UNION {LET s == block[k]
           IN  CASE s.k = "Assign" -> {s.targets[i].id : i \in
                                          {j \in 1..Len(s.targets) : s.targets[j].k = "Name"}}
                 [] s.k = "If" -> IF BlockReturns(<<s>>) THEN {}
                                  ELSE BlockAssigns(s.body) \cup BlockAssigns(s.orelse)
                 [] s.k = "While" -> BlockAssigns(s.body)
                 [] OTHER -> {}
           : k \in 1..Len(block)}

\* the names an expression reads
RECURSIVE Reads(_)
Reads(e) ==
    CASE e.k = "Name" -> {e.id}
      [] e.k = "BinOp" -> Reads(e.left) \cup Reads(e.right)
      [] e.k = "Compare" -> Reads(e.left) \cup Reads(e.comparators[1])
      [] OTHER -> {}

\* the names the block reads, at any depth, before it has bound them, given
\* the names bound on entry
RECURSIVE FreeReads(_, _)
FreeReads(block, bound) ==
    IF Len(block) = 0 THEN {}
    ELSE LET s == Head(block)
             here == CASE s.k \in {"Assign", "Return", "Expr"} -> Reads(s.value) \ bound
                       [] s.k = "If" -> (Reads(s.test) \ bound)
                                           \cup FreeReads(s.body, bound)
                                           \cup FreeReads(s.orelse, bound)
                       [] s.k = "While" -> (Reads(s.test) \ bound)
                                              \cup FreeReads(s.body, bound)
                       [] s.k = "FunctionDef" ->
                              FreeReads(s.body, {s.args[i] : i \in 1..Len(s.args)}) \ bound
                       [] OTHER -> {}
         IN  here \cup FreeReads(Tail(block), bound \cup BlockAssigns(<<s>>))

\* the unit's symbols that occur free in a lowered expression
RECURSIVE FreeSyms(_)
FreeSymsAll(es) == UNION {FreeSyms(es[i]) : i \in 1..Len(es)}
FreeSyms(e) ==
    CASE e.k = "Symbol" -> IF e.ns = UnitNamespace THEN {e} ELSE {}
      [] e.k = "LetRec" ->
             (UNION {FreeSyms(e.bindings[i][2]) : i \in 1..Len(e.bindings)}
                 \cup FreeSyms(e.body)) \ {e.bindings[i][1] : i \in 1..Len(e.bindings)}
      [] e.k = "If" -> FreeSyms(e.cond) \cup FreeSyms(e.t) \cup FreeSyms(e.f)
      [] e.k = "Lambda" -> FreeSyms(e.body) \ {e.args[i] : i \in 1..Len(e.args)}
      [] e.k = "Apply" -> FreeSyms(e.fn) \cup FreeSymsAll(e.args)
      [] e.k = "Begin" -> FreeSymsAll(e.stmts)
      [] e.k = "Tuple" -> FreeSymsAll(e.values)
      [] e.k = "_Assign" -> FreeSyms(e.value)
      [] OTHER -> {}

\* the statement visits of the run that has ended
Calls == IF out.ran THEN out.w.calls ELSE <<>>

\* visit i was of a statement with the blocks body and, for a conditional,
\* orelse; every statement of its block which was lowered in a child scope
\* of the visiting parser, without an error
Lowered(i, which) ==
    LET c == Calls[i]
    IN  \A k \in 1..Len(c.node[which]) :
            \E j \in 1..(i - 1) :
                /\ Calls[j].loc = c.loc \o <<which, ToString(k)>>
                /\ Calls[j].exc.type = "none"
                /\ out.w.ps[Calls[j].p].parent = c.p

IsWhileName(name) == Len(name) >= Len(WhileName) /\ SubSeq(name, 1, Len(WhileName)) = WhileName

(***************************************************************************)
(* The claims about the lowering pass.                                     *)
(***************************************************************************)
\* C3: when a unit has been lowered, every function visit_While generated
\* for a loop of it is closed: no symbol of the unit occurs free in it, that
\* is, every name its test and body read from an enclosing scope is one of
\* its parameters.
C3_LoopClosed ==
    (out.ran /\ out.exc.type = "none") =>
        \A name \in DOMAIN out.w.genv :
            IsWhileName(name) => FreeSyms(out.w.genv[name]) = {}

\* C5: for a conditional whose branches were both lowered and agree on
\* whether they return, the visit ends with the syntax error that names the
\* two sets of assigned names when the sets differ, and ends without an error
\* when they are equal, whatever the order of the assignments.
C5_BranchSymmetry ==
    \A i \in 1..Len(Calls) :
        LET c == Calls[i]
        IN  (/\ c.node.k = "If"
             /\ Lowered(i, "body") /\ Lowered(i, "orelse")
             /\ NoDeadCode(c.node.body) /\ NoDeadCode(c.node.orelse)
             /\ BlockReturns(c.node.body) = BlockReturns(c.node.orelse))
            => IF BlockAssigns(c.node.body) # BlockAssigns(c.node.orelse)
               THEN /\ c.exc.type = "MyiaSyntaxError"
                    /\ c.exc.location = c.loc
                    /\ Len(c.exc.message) = 5
                    /\ c.exc.message[2] = "True branch sets: "
                    /\ c.exc.message[3] = JoinSpace(Sorted(BlockAssigns(c.node.body)))
                    /\ c.exc.message[4] = "Else branch sets: "
                    /\ c.exc.message[5] = JoinSpace(Sorted(BlockAssigns(c.node.orelse)))
               ELSE c.exc.type = "none"

\* a conditional whose branches assign a and b in opposite orders has been
\* lowered
C5_Witness ==
    \E i \in 1..Len(Calls) :
        LET c == Calls[i]
        IN  /\ c.node.k = "If"
            /\ c.exc.type = "none"
            /\ c.node.body = <<AssignOne, AssignSum>>
            /\ c.node.orelse = <<AssignSum, AssignOne>>

\* C6: the visit of a function definition nested in a function, whose body
\* was lowered and reads, at any depth, a parameter of the enclosing function
\* that it does not bind itself, ends with a syntax error, and the definition
\* is not in the global table.
C6_NamedFunctionClosed ==
    \A i \in 1..Len(Calls) :
        LET c == Calls[i]
        IN  (/\ c.node.k = "FunctionDef"
             /\ Len(c.loc) > 0
             /\ Lowered(i, "body")
             /\ \E x \in FreeReads(c.node.body,
                                   {c.node.args[j] : j \in 1..Len(c.node.args)}) :
                    \E j \in 1..Len(prog.args) : prog.args[j] = x)
            => /\ c.exc.type = "MyiaSyntaxError"
               /\ c.node.name \notin DOMAIN out.w.genv

\* C7: the visit of an assignment with more than one target, or with a
\* target that is not a name, ends with a syntax error.
C7_UnsupportedAssign ==
    \A i \in 1..Len(Calls) :
        LET c == Calls[i]
        IN  (/\ c.node.k = "Assign"
             /\ (Len(c.node.targets) # 1 \/ c.node.targets[1].k # "Name"))
            => c.exc.type = "MyiaSyntaxError"

\* C10: the visit of a return statement inside a loop body, at any depth,
\* ends with the syntax error of the loop-return message, and the visit of
\* one outside every loop ends without an error; a unit with a return inside
\* a loop is never lowered, and a unit without one never gets that message.
C10_NoReturnInLoop ==
    /\ \A i \in 1..Len(Calls) :
          LET c == Calls[i]
          IN  c.node.k = "Return" =>
                 IF InLoop(prog, c.loc)
                 THEN c.exc = MyiaSyntaxError(c.loc, <<WhileReturnError>>)
                 ELSE c.exc.type = "none"
    /\ out.ran =>
          IF ReturnInLoop(prog.body, FALSE)
          THEN out.exc.type # "none"
          ELSE out.exc.message # <<WhileReturnError>>

\* a return in a branch of a conditional in a loop body was refused, after a
\* statement before the loop had been lowered
C10_Witness ==
    \E i \in 1..Len(Calls) :
        LET c == Calls[i]
        IN  /\ c.node.k = "Return"
            /\ Len(c.loc) = 6
            /\ InLoop(prog, c.loc)
            /\ NodeAt(prog, SubSeq(c.loc, 1, 4)).k = "If"
            /\ c.exc.message = <<WhileReturnError>>
            /\ Calls[1].node = AssignOne

(***************************************************************************)
(* Let-grouping: what a call of visit_body's helper made of its groups.    *)
(***************************************************************************)
Applied == IF out.ran THEN out.w.applied ELSE <<>>

\* a binding of a let, as it is evaluated
Binding(varname, value) == [k |-> "binding", varname |-> varname, value |-> value]

\* the bindings and statements of a lowered body in the order they are
\* evaluated, the expression in tail position last
RECURSIVE Unfold(_)
Unfold(e) ==
    IF e.k = "LetRec"
    THEN [i \in 1..Len(e.bindings) |-> Binding(e.bindings[i][1], e.bindings[i][2])]
            \o Unfold(e.body)
    ELSE IF e.k = "Begin" /\ Len(e.stmts) > 0
    THEN SubSeq(e.stmts, 1, Len(e.stmts) - 1) \o Unfold(e.stmts[Len(e.stmts)])
    ELSE <<e>>

\* the bindings and side-effect statements of the groups, in source order
RECURSIVE Sequenced(_)
Sequenced(groups) ==
    IF Len(groups) = 0 THEN <<>>
    ELSE (IF groups[1].isass
          THEN [i \in 1..Len(groups[1].grp) |->
                   Binding(groups[1].grp[i].varname, groups[1].grp[i].value)]
          ELSE groups[1].grp) \o Sequenced(Tail(groups))

\* the final run of the groups is a run of assignments
EndsInAssignments(groups) == Len(groups) > 0 /\ groups[Len(groups)].isass

\* the helper was given the result value v and put it in tail position,
\* after every binding and statement of the list
ResultSupplied(c) ==
    /\ c.exc.type = "none"
    /\ Unfold(c.r) = Append(Sequenced(c.groups), c.result)

MissingReturn(c) ==
    /\ c.exc.type = "MyiaSyntaxError"
    /\ c.exc.message = <<"Missing return statement.">>

\* C12: whenever a lowered statement list is given a result value v, the
\* expression produced has v in tail position, after all of the list's
\* bindings and side-effect statements, for every mix of assignments and
\* other statements; given no result value, a list whose final run is a run
\* of assignments raises the syntax error "Missing return statement."
C12_ResultSupply ==
    \A i \in 1..Len(Applied) :
        /\ Applied[i].result.k # "None" => ResultSupplied(Applied[i])
        /\ (Applied[i].result.k = "None" /\ EndsInAssignments(Applied[i].groups))
               => MissingReturn(Applied[i])

\* the part of C12 about lists whose final run is a run of assignments
C12_AssignmentsLast ==
    \A i \in 1..Len(Applied) :
        EndsInAssignments(Applied[i].groups) =>
            IF Applied[i].result.k = "None" THEN MissingReturn(Applied[i])
            ELSE ResultSupplied(Applied[i])

(***************************************************************************)
(* Loops: the function a visit of a while-loop registered and the          *)
(* statements it returned to the call site.                                *)
(***************************************************************************)
\* the name a symbol was made for: its label up to the first '#'
BaseName(label) ==
    IF \E i \in 1..Len(label) : label[i] = "#"
    THEN SubSeq(label, 1, (CHOOSE i \in 1..Len(label) :
                              /\ label[i] = "#"
                              /\ \A j \in 1..(i - 1) : label[j] # "#") - 1)
    ELSE label

\* the statements visit c of a loop returned, the symbol of the function it
\* generated and the function registered under it
CallSite(c) == c.r.stmts
LoopSymbol(c) == CallSite(c)[1].value.fn
LoopFunction(c) == out.w.genv[LoopSymbol(c).label]

\* the parameters of fn made for name
ParamsFor(fn, name) ==
    {fn.args[j] : j \in {i \in 1..Len(fn.args) : BaseName(fn.args[i].label) = name}}

\* the exit arm of the function of loop c is the tuple of its own parameters
\* for names, in their order
ExitArm(c, names) ==
    /\ LoopFunction(c).body.k = "If"
    /\ LoopFunction(c).body.f.k = "Tuple"
    /\ Len(LoopFunction(c).body.f.values) = Len(names)
    /\ \A k \in 1..Len(names) :
           ParamsFor(LoopFunction(c), names[k]) = {LoopFunction(c).body.f.values[k]}

\* the call site of loop c binds a temporary to the call and then rebinds
\* names[k] to index k of it, for each k and nothing else
Unpacking(c, names) ==
    /\ Len(CallSite(c)) = Len(names) + 1
    /\ CallSite(c)[1].value.k = "Apply"
    /\ \A k \in 1..Len(names) :
           /\ CallSite(c)[k + 1].k = "_Assign"
           /\ BaseName(CallSite(c)[k + 1].varname.label) = names[k]
           /\ CallSite(c)[k + 1].value =
                  Apply(BuiltinIndex, <<CallSite(c)[1].varname, Literal(k - 1)>>)

\* the symbol current for parameter j of fn after the bindings of arm
CurrentAfter(fn, arm, j) ==
    LET bound == {i \in 1..Len(arm) :
                     /\ arm[i].k = "binding"
                     /\ BaseName(arm[i].varname.label) = BaseName(fn.args[j].label)}
    IN  IF bound = {} THEN fn.args[j]
        ELSE arm[CHOOSE i \in bound : \A n \in bound : n <= i].varname

\* the arm of the function of loop c taken when the test holds ends in the
\* recursive call, on the symbols current after the body's assignments
RecursiveCall(c) ==
    LET fn == LoopFunction(c)
        arm == Unfold(fn.body.t)
    IN  arm[Len(arm)] =
            Apply(LoopSymbol(c), [j \in 1..Len(fn.args) |-> CurrentAfter(fn, arm, j)])

LoopVisits == {i \in 1..Len(Calls) :
                  Calls[i].node.k = "While" /\ Calls[i].exc.type = "none"}

\* C13: for a while-loop whose body assigns the names O, the exit arm of the
\* generated function is a tuple of |O| positions holding the function's own
\* parameters for the names of O, the call site unpacks exactly |O| results,
\* the k-th into the k-th name of O, and the recursive call passes for each
\* parameter the symbol current after the body's assignments.
C13_LoopThreading ==
    \A i \in LoopVisits :
        /\ \E names \in Perms(BlockAssigns(Calls[i].node.body)) :
               ExitArm(Calls[i], names) /\ Unpacking(Calls[i], names)
        /\ RecursiveCall(Calls[i])

\* the last statement of the block lowers to assignments
AssignmentsLast(block) == block[Len(block)].k \in {"Assign", "If", "While"}

\* the part of C13 that does not rest on the last statement of the body
C13_ThreadingAssignmentsLast ==
    \A i \in LoopVisits :
        /\ \E names \in Perms(BlockAssigns(Calls[i].node.body)) :
               ExitArm(Calls[i], names) /\ Unpacking(Calls[i], names)
        /\ AssignmentsLast(Calls[i].node.body) => RecursiveCall(Calls[i])

(***************************************************************************)
(* The global table after a unit is lowered.                               *)
(***************************************************************************)
\* the number of while-loops in the source of a block, at any depth
RECURSIVE CountLoops(_)
CountLoops(block) ==
    IF Len(block) = 0 THEN 0
    ELSE (CASE Head(block).k = "While" -> 1 + CountLoops(Head(block).body)
            [] Head(block).k = "If" -> CountLoops(Head(block).body)
                                          + CountLoops(Head(block).orelse)
            [] Head(block).k = "FunctionDef" -> CountLoops(Head(block).body)
            [] OTHER -> 0) + CountLoops(Tail(block))

\* the names of the global table a lowered expression refers to
RECURSIVE GlobalRefs(_)
GlobalRefsAll(es) == UNION {GlobalRefs(es[i]) : i \in 1..Len(es)}
GlobalRefs(e) ==
    CASE e.k = "Symbol" -> IF e.ns = "global" THEN {e.label} ELSE {}
      [] e.k = "LetRec" ->
             UNION {GlobalRefs(e.bindings[i][2]) : i \in 1..Len(e.bindings)}
                \cup GlobalRefs(e.body)
      [] e.k = "If" -> GlobalRefs(e.cond) \cup GlobalRefs(e.t) \cup GlobalRefs(e.f)
      [] e.k = "Lambda" -> GlobalRefs(e.body)
      [] e.k = "Apply" -> GlobalRefs(e.fn) \cup GlobalRefsAll(e.args)
      [] e.k = "Begin" -> GlobalRefsAll(e.stmts)
      [] e.k = "Tuple" -> GlobalRefsAll(e.values)
      [] e.k = "_Assign" -> GlobalRefs(e.value)
      [] OTHER -> {}

\* the definitions of the table reachable from those named in S
RECURSIVE Reachable(_, _)
Reachable(genv, S) ==
    LET next == S \cup (UNION {GlobalRefs(genv[n]) : n \in S} \cap DOMAIN genv)
    IN  IF next = S THEN S ELSE Reachable(genv, next)

\* the functions in the table that visit_While generated
LoopHelpers == {name \in DOMAIN out.w.genv : IsWhileName(name)}

\* C14: the first pass over a loop body leaves the global table unchanged:
\* after a function with n while-loops, nested in any way, has been lowered,
\* the table holds exactly n generated loop functions, each reachable from
\* the lowered function.
C14_ThrowawayPass ==
    (out.ran /\ out.exc.type = "none") =>
        /\ Cardinality(LoopHelpers) = CountLoops(prog.body)
        /\ LoopHelpers \subseteq Reachable(out.w.genv, {prog.name})

\* no loop of the block has a loop in its body
RECURSIVE NoNestedLoop(_, _)
NoNestedLoop(block, inloop) ==
    \A k \in 1..Len(block) :
        CASE block[k].k = "While" -> ~inloop /\ NoNestedLoop(block[k].body, TRUE)
          [] block[k].k = "If" -> /\ NoNestedLoop(block[k].body, inloop)
                                  /\ NoNestedLoop(block[k].orelse, inloop)
          [] block[k].k = "FunctionDef" -> NoNestedLoop(block[k].body, inloop)
          [] OTHER -> TRUE

\* the part of C14 about units without a loop inside a loop
C14_LoopsNotNested ==
    (out.ran /\ out.exc.type = "none" /\ NoNestedLoop(prog.body, FALSE)) =>
        /\ Cardinality(LoopHelpers) = CountLoops(prog.body)
        /\ LoopHelpers \subseteq Reachable(out.w.genv, {prog.name})

=============================================================================
